---- MODULE Spec2Model ----
(***************************************************************************)
(* A model of src/lib/runTest.ts: runTests resolves the executable (asking *)
(* downloadAndUnzipVSCode when the caller gave none), selects or builds    *)
(* the argument list, and innerRunTests spawns the child, listens to its   *)
(* stdout 'data', stderr 'data', 'error' and 'close' events and settles    *)
(* one promise.  One step of the model is one run-to-completion turn of    *)
(* the JavaScript event loop: the synchronous part of runTests up to its   *)
(* await, the continuation after the await, or one event handler.          *)
(***************************************************************************)
EXTENDS Integers, Sequences, FiniteSets, TLC

(***************************************************************************)
(* Bounds of the model.                                                    *)
(***************************************************************************)
\* data and 'error' events the children deliver in one run
MaxEvents == 2

(***************************************************************************)
(* JavaScript values whose type varies at run time are tagged.             *)
(***************************************************************************)
undefined == <<"undefined">>
null == <<"null">>
Num(n) == <<"number", n>>
Str(s) == <<"string", s>>
Err(s) == <<"error", s>>

Digit == <<"0", "1", "2", "3", "4", "5", "6", "7", "8", "9">>

RECURSIVE Decimal(_)
Decimal(n) == IF n < 10 THEN Digit[n + 1] ELSE Decimal(n \div 10) \o Digit[(n % 10) + 1]

\* String(v), as template literals, '+' and toString() apply it
toString(v) ==
    CASE v = undefined -> "undefined"
      [] v = null -> "null"
      [] v[1] = "number" -> Decimal(v[2])
      [] v[1] = "string" -> v[2]
      [] v[1] = "error" -> "Error: " \o v[2]

\* String.prototype.includes
Includes(s, sub) ==
    \E k \in 1..(Len(s) - Len(sub) + 1) : SubSeq(s, k, k + Len(sub) - 1) = sub

(***************************************************************************)
(* The options object: a JavaScript object is a function from the keys it  *)
(* has to their values; a key it lacks reads as undefined.                 *)
(***************************************************************************)
NoKeys == [k \in {} |-> k]

Has(o, k) == k \in DOMAIN o

\* TruthyString with the presence of the key as the test
TruthyStringByKey(o, k) == Has(o, k)

\* truthiness of an optional string property: undefined and '' are falsy
TruthyString(o, k) == Has(o, k) /\ o[k] # ""

\* the value read from an optional string property
Read(o, k) == IF Has(o, k) THEN Str(o[k]) ELSE undefined

\* Assign with a fresh object that holds the written key alone
AssignFresh(o, key, value) == [k \in {key} |-> value]

\* options.key = value
Assign(o, key, value) ==
    [k \in DOMAIN o \cup {key} |-> IF k = key THEN value ELSE o[k]]

(***************************************************************************)
(* The inputs: the caller's requests, the ambient environment, what the    *)
(* child writes and how it ends, what the download returns.                *)
(***************************************************************************)
ExecutableChoices == {NoKeys, "vscodeExecutablePath" :> "", "vscodeExecutablePath" :> "/opt/code"}
VersionChoices == {NoKeys, "version" :> "insiders"}
ExtensionChoices == {("extensionPath" :> "/ext") @@ ("testRunnerPath" :> "/ext/test")}
WorkspaceChoices == {NoKeys, "testWorkspace" :> "", "testWorkspace" :> "/ws"}
LocaleChoices == {NoKeys, "locale" :> "", "locale" :> "fr"}
AdditionalChoices == {NoKeys, "additionalLaunchArgs" :> <<"--x", "--y">>}
LaunchArgsChoices == {NoKeys, "launchArgs" :> <<"/fixture", "--explicit">>}
EnvChoices ==
    { NoKeys,
      "testRunnerEnv" :> (("MODE" :> Str("test")) @@ ("EXTRA" :> Str("1"))),
      "testRunnerEnv" :> (("MODE" :> undefined) @@ ("EXTRA" :> Str("1"))) }

\* TestOptions | ExplicitTestOptions, and objects that carry the fields of both
Requests ==
    { e @@ v @@ x @@ w @@ l @@ a @@ la @@ env :
        e \in ExecutableChoices, v \in VersionChoices, x \in ExtensionChoices,
        w \in WorkspaceChoices, l \in LocaleChoices, a \in AdditionalChoices,
        la \in LaunchArgsChoices, env \in EnvChoices }

AmbientEnv == ("PATH" :> Str("/usr/bin")) @@ ("MODE" :> Str("ambient"))

StdoutChunks == {"update#setState idle\n", "main update#setState idle again\n", "1 passing\n"}
StderrChunks == {"stty: stdin isn't a terminal\n", "warning\n"}
SpawnErrors == {Err("spawn ENOENT")}
ExitCodes == {Num(0), Num(1), null}
DownloadedPaths == {"/cache/vscode/code"}
DownloadErrors == {Err("Failed to download"), Err("Failed to unzip")}

Invocations == {1, 2}

VARIABLES
    pc,             \* where each invocation of runTests is
    options,        \* the options object each invocation was called with
    request,        \* that object as it was when the call was made
    processEnv,     \* process.env
    downloadCalls,  \* the arguments of the calls of downloadAndUnzipVSCode
    downloaded,     \* how the awaited download ended, <<>> before it has
    spawned,        \* the calls of cp.spawn: executable, args, env
    result,         \* the promise runTests returned
    trace,          \* the child's events handled so far, in order
    log             \* the console.log lines of the invocation's handlers

vars == <<pc, options, request, processEnv, downloadCalls, downloaded, spawned,
          result, trace, log>>

Pending == [state |-> "pending", value |-> undefined]

(***************************************************************************)
(* Promise settlement: resolve and reject act on a pending promise only.   *)
(***************************************************************************)
resolve(p, v) == IF p.state = "pending" THEN [state |-> "fulfilled", value |-> v] ELSE p
reject(p, v) == IF p.state = "pending" THEN [state |-> "rejected", value |-> v] ELSE p

\* BuildArgs with the workspace pushed after the three options, not unshifted
BuildArgsWorkspaceLast(o) ==
    LET base == << "--extensionDevelopmentPath=" \o toString(Read(o, "extensionPath")),
                   "--extensionTestsPath=" \o toString(Read(o, "testRunnerPath")),
                   "--locale=" \o (IF TruthyString(o, "locale") THEN o["locale"] ELSE "en") >>
        withWorkspace == IF TruthyString(o, "testWorkspace")
                         THEN base \o <<o["testWorkspace"]>>
                         ELSE base
    IN  IF Has(o, "additionalLaunchArgs")
        THEN withWorkspace \o o["additionalLaunchArgs"]
        ELSE withWorkspace

(***************************************************************************)
(* runTests, lines 136-147: the argument list built for TestOptions.       *)
(***************************************************************************)
BuildArgs(o) ==
    LET base == << "--extensionDevelopmentPath=" \o toString(Read(o, "extensionPath")),
                   "--extensionTestsPath=" \o toString(Read(o, "testRunnerPath")),
                   "--locale=" \o (IF TruthyString(o, "locale") THEN o["locale"] ELSE "en") >>
        withWorkspace == IF TruthyString(o, "testWorkspace")
                         THEN <<o["testWorkspace"]>> \o base
                         ELSE base
    IN  IF Has(o, "additionalLaunchArgs")
        THEN withWorkspace \o o["additionalLaunchArgs"]
        ELSE withWorkspace

\* SelectArgs with additionalLaunchArgs appended to an explicit list too
SelectArgsMerged(o) ==
    IF Has(o, "launchArgs")
    THEN IF Has(o, "additionalLaunchArgs")
         THEN o["launchArgs"] \o o["additionalLaunchArgs"]
         ELSE o["launchArgs"]
    ELSE BuildArgs(o)

\* runTests, lines 132-148: 'launchArgs' in options selects the list
SelectArgs(o) == IF Has(o, "launchArgs") THEN o["launchArgs"] ELSE BuildArgs(o)

\* the value read from an optional object property
ReadObject(o, k) == IF Has(o, k) THEN <<"object", o[k]>> ELSE undefined

\* ObjectAssign with the keys whose value is undefined left out of the copy
ObjectAssignDefined(target, source) ==
    IF source = undefined
    THEN target
    ELSE [k \in DOMAIN target \cup {j \in DOMAIN source[2] : source[2][j] # undefined} |->
            IF k \in DOMAIN source[2] /\ source[2][k] # undefined THEN source[2][k] ELSE target[k]]

\* Object.assign(target, source): an undefined source is skipped, and every own
\* key of the source is written to the target, whatever its value
ObjectAssign(target, source) ==
    IF source = undefined
    THEN target
    ELSE [k \in DOMAIN target \cup DOMAIN source[2] |->
            IF k \in DOMAIN source[2] THEN source[2][k] ELSE target[k]]

\* fullEnv with the sources in the other order: Object.assign({}, testRunnerEnv, process.env)
fullEnvAmbientWins(env, testRunnerEnv) ==
    ObjectAssign(ObjectAssign(NoKeys, testRunnerEnv), <<"object", env>>)

\* line 159: Object.assign({}, process.env, testRunnerEnv)
fullEnv(env, testRunnerEnv) == ObjectAssign(ObjectAssign(NoKeys, <<"object", env>>), testRunnerEnv)

\* innerRunTests with process.env as the target: Object.assign(process.env, testRunnerEnv)
innerRunTestsSharedEnv(i, executable, args, testRunnerEnv) ==
    /\ processEnv' = ObjectAssign(processEnv, testRunnerEnv)
    /\ spawned' = [spawned EXCEPT ![i] =
            Append(@, [executable |-> executable,
                       args |-> args,
                       env |-> processEnv'])]
    /\ pc' = [pc EXCEPT ![i] = "running"]

\* innerRunTests, lines 151-160: the child is spawned and the handlers
\* registered; the target of Object.assign is a fresh object, so process.env
\* is read and not written
innerRunTests(i, executable, args, testRunnerEnv) ==
    /\ processEnv' = processEnv
    /\ spawned' = [spawned EXCEPT ![i] =
            Append(@, [executable |-> executable,
                       args |-> args,
                       env |-> fullEnv(processEnv, testRunnerEnv)])]
    /\ pc' = [pc EXCEPT ![i] = "running"]

\* runTests, lines 132-148: both returns hand the executable, the list and
\* options.testRunnerEnv to innerRunTests
launch(i, o) ==
    innerRunTests(i, o["vscodeExecutablePath"], SelectArgs(o), ReadObject(o, "testRunnerEnv"))

\* runTests with downloadAndUnzipVSCode called without options.version
runTestsLatestOnly(i) ==
    /\ pc[i] = "start"
    /\ IF ~TruthyString(options[i], "vscodeExecutablePath")
       THEN /\ downloadCalls' = [downloadCalls EXCEPT ![i] = Append(@, undefined)]
            /\ pc' = [pc EXCEPT ![i] = "await"]
            /\ UNCHANGED <<spawned, processEnv>>
       ELSE /\ launch(i, options[i])
            /\ UNCHANGED downloadCalls
    /\ UNCHANGED <<options, request, downloaded, result, trace, log>>

(***************************************************************************)
(* runTests up to its first suspension: line 128, then either the call of  *)
(* downloadAndUnzipVSCode at line 129 or lines 132-148 and the spawn.      *)
(***************************************************************************)
runTests(i) ==
    /\ pc[i] = "start"
    /\ IF ~TruthyString(options[i], "vscodeExecutablePath")
       THEN /\ downloadCalls' = [downloadCalls EXCEPT ![i] = Append(@, Read(options[i], "version"))]
            /\ pc' = [pc EXCEPT ![i] = "await"]
            /\ UNCHANGED <<spawned, processEnv>>
       ELSE /\ launch(i, options[i])
            /\ UNCHANGED downloadCalls
    /\ UNCHANGED <<options, request, downloaded, result, trace, log>>

\* line 129: the awaited download returned a path, which is stored in the
\* options object; lines 132-148 follow in the same turn
downloadReturns(i, path) ==
    /\ pc[i] = "await"
    /\ downloaded' = [downloaded EXCEPT ![i] = <<Str(path)>>]
    /\ options' = [options EXCEPT ![i] = Assign(@, "vscodeExecutablePath", path)]
    /\ launch(i, options'[i])
    /\ UNCHANGED <<request, downloadCalls, result, trace, log>>

\* downloadFails with the error caught and the download tried again
downloadFailsRetries(i, error) ==
    /\ pc[i] = "await"
    /\ downloaded' = [downloaded EXCEPT ![i] = <<error>>]
    /\ pc' = [pc EXCEPT ![i] = "start"]
    /\ UNCHANGED <<options, request, processEnv, downloadCalls, spawned, result, trace, log>>

\* line 129: the awaited download failed; the await throws and the promise of
\* the async function is rejected with the error
downloadFails(i, error) ==
    /\ pc[i] = "await"
    /\ downloaded' = [downloaded EXCEPT ![i] = <<error>>]
    /\ result' = [result EXCEPT ![i] = reject(@, error)]
    /\ pc' = [pc EXCEPT ![i] = "failed"]
    /\ UNCHANGED <<options, request, processEnv, downloadCalls, spawned, trace, log>>

(***************************************************************************)
(* The handlers innerRunTests registers on the child.  A child delivers    *)
(* data and 'error' events while it runs and 'close' as its last event.    *)
(***************************************************************************)
\* the data and 'error' events handled so far, over all children
DataEvents(i) == Len(SelectSeq(trace[i], LAMBDA e : e[1] # "close"))
Delivered == DataEvents(1) + DataEvents(2)

\* stdoutData with only the chunk that equals the idle line suppressed
stdoutDataExact(i, data) ==
    /\ pc[i] = "running"
    /\ Delivered < MaxEvents
    /\ trace' = [trace EXCEPT ![i] = Append(@, <<"stdout", data>>)]
    /\ log' = [log EXCEPT ![i] =
            IF data # "update#setState idle\n" THEN Append(@, data) ELSE @]
    /\ UNCHANGED <<pc, options, request, processEnv, downloadCalls, downloaded, spawned, result>>

\* lines 162-167
stdoutData(i, data) ==
    /\ pc[i] = "running"
    /\ Delivered < MaxEvents
    /\ trace' = [trace EXCEPT ![i] = Append(@, <<"stdout", data>>)]
    /\ log' = [log EXCEPT ![i] =
            IF ~Includes(data, "update#setState idle") THEN Append(@, data) ELSE @]
    /\ UNCHANGED <<pc, options, request, processEnv, downloadCalls, downloaded, spawned, result>>

\* stderrData with any output on standard error failing the run
stderrDataRejects(i, data) ==
    /\ pc[i] = "running"
    /\ Delivered < MaxEvents
    /\ trace' = [trace EXCEPT ![i] = Append(@, <<"stderr", data>>)]
    /\ log' = [log EXCEPT ![i] =
            IF ~Includes(data, "stty: stdin") THEN Append(@, "Spawn Error: " \o data) ELSE @]
    /\ result' = [result EXCEPT ![i] = reject(@, Str("Failed"))]
    /\ UNCHANGED <<pc, options, request, processEnv, downloadCalls, downloaded, spawned>>

\* stderrData with the chunk logged as it is, without the 'Spawn Error: ' prefix
stderrDataUnprefixed(i, data) ==
    /\ pc[i] = "running"
    /\ Delivered < MaxEvents
    /\ trace' = [trace EXCEPT ![i] = Append(@, <<"stderr", data>>)]
    /\ log' = [log EXCEPT ![i] =
            IF ~Includes(data, "stty: stdin") THEN Append(@, data) ELSE @]
    /\ UNCHANGED <<pc, options, request, processEnv, downloadCalls, downloaded, spawned, result>>

\* lines 169-174
stderrData(i, data) ==
    /\ pc[i] = "running"
    /\ Delivered < MaxEvents
    /\ trace' = [trace EXCEPT ![i] = Append(@, <<"stderr", data>>)]
    /\ log' = [log EXCEPT ![i] =
            IF ~Includes(data, "stty: stdin") THEN Append(@, "Spawn Error: " \o data) ELSE @]
    /\ UNCHANGED <<pc, options, request, processEnv, downloadCalls, downloaded, spawned, result>>

\* errorEvent with the 'error' handler rejecting the promise
errorEventRejects(i, data) ==
    /\ pc[i] = "running"
    /\ Delivered < MaxEvents
    /\ trace' = [trace EXCEPT ![i] = Append(@, <<"error", data>>)]
    /\ log' = [log EXCEPT ![i] = Append(@, "Test error: " \o toString(data))]
    /\ result' = [result EXCEPT ![i] = reject(@, data)]
    /\ UNCHANGED <<pc, options, request, processEnv, downloadCalls, downloaded, spawned>>

\* lines 176-178
errorEvent(i, data) ==
    /\ pc[i] = "running"
    /\ Delivered < MaxEvents
    /\ trace' = [trace EXCEPT ![i] = Append(@, <<"error", data>>)]
    /\ log' = [log EXCEPT ![i] = Append(@, "Test error: " \o toString(data))]
    /\ UNCHANGED <<pc, options, request, processEnv, downloadCalls, downloaded, spawned, result>>

\* closeEvent without the test of the exit code: resolve(code) alone
closeEventResolvesOnly(i, code) ==
    /\ pc[i] = "running"
    /\ trace' = [trace EXCEPT ![i] = Append(@, <<"close", code>>)]
    /\ log' = [log EXCEPT ![i] = @ \o <<"Exit code:   " \o toString(code), "Done\n">>]
    /\ result' = [result EXCEPT ![i] = resolve(@, code)]
    /\ pc' = [pc EXCEPT ![i] = "closed"]
    /\ UNCHANGED <<options, request, processEnv, downloadCalls, downloaded, spawned>>

\* closeEvent with resolve(code) called before the test of the exit code
closeEventResolvesFirst(i, code) ==
    /\ pc[i] = "running"
    /\ trace' = [trace EXCEPT ![i] = Append(@, <<"close", code>>)]
    /\ log' = [log EXCEPT ![i] = @ \o <<"Exit code:   " \o toString(code), "Done\n">>]
    /\ result' = [result EXCEPT ![i] =
            IF code # Num(0) THEN reject(resolve(@, code), Str("Failed")) ELSE resolve(@, code)]
    /\ pc' = [pc EXCEPT ![i] = "closed"]
    /\ UNCHANGED <<options, request, processEnv, downloadCalls, downloaded, spawned>>

\* closeEvent with the exit code as the rejection value: reject(code)
closeEventRejectsWithCode(i, code) ==
    /\ pc[i] = "running"
    /\ trace' = [trace EXCEPT ![i] = Append(@, <<"close", code>>)]
    /\ log' = [log EXCEPT ![i] = @ \o <<"Exit code:   " \o toString(code), "Done\n">>]
    /\ result' = [result EXCEPT ![i] =
            resolve(IF code # Num(0) THEN reject(@, code) ELSE @, code)]
    /\ pc' = [pc EXCEPT ![i] = "closed"]
    /\ UNCHANGED <<options, request, processEnv, downloadCalls, downloaded, spawned>>

\* closeEvent with a handler that logs and settles nothing
closeEventLogsOnly(i, code) ==
    /\ pc[i] = "running"
    /\ trace' = [trace EXCEPT ![i] = Append(@, <<"close", code>>)]
    /\ log' = [log EXCEPT ![i] = @ \o <<"Exit code:   " \o toString(code), "Done\n">>]
    /\ pc' = [pc EXCEPT ![i] = "closed"]
    /\ UNCHANGED <<options, request, processEnv, downloadCalls, downloaded, spawned, result>>

\* lines 180-189: reject when code !== 0, then in every case 'Done' and resolve(code)
closeEvent(i, code) ==
    /\ pc[i] = "running"
    /\ trace' = [trace EXCEPT ![i] = Append(@, <<"close", code>>)]
    /\ log' = [log EXCEPT ![i] = @ \o <<"Exit code:   " \o toString(code), "Done\n">>]
    /\ result' = [result EXCEPT ![i] =
            resolve(IF code # Num(0) THEN reject(@, Str("Failed")) ELSE @, code)]
    /\ pc' = [pc EXCEPT ![i] = "closed"]
    /\ UNCHANGED <<options, request, processEnv, downloadCalls, downloaded, spawned>>

(***************************************************************************)
(* One caller, one invocation.                                             *)
(***************************************************************************)
IdleRequest == CHOOSE r \in Requests : TRUE

Init ==
    /\ \E r \in Requests :
          /\ options = (1 :> r) @@ (2 :> IdleRequest)
          /\ request = (1 :> r) @@ (2 :> IdleRequest)
    /\ pc = (1 :> "start") @@ (2 :> "idle")
    /\ processEnv = AmbientEnv
    /\ downloadCalls = [i \in Invocations |-> <<>>]
    /\ downloaded = [i \in Invocations |-> <<>>]
    /\ spawned = [i \in Invocations |-> <<>>]
    /\ result = [i \in Invocations |-> Pending]
    /\ trace = [i \in Invocations |-> <<>>]
    /\ log = [i \in Invocations |-> <<>>]

Next ==
    \E i \in Invocations :
        \/ runTests(i)
        \/ \E path \in DownloadedPaths : downloadReturns(i, path)
        \/ \E error \in DownloadErrors : downloadFails(i, error)
        \/ \E data \in StdoutChunks : stdoutData(i, data)
        \/ \E data \in StderrChunks : stderrData(i, data)
        \/ \E data \in SpawnErrors : errorEvent(i, data)
        \/ \E code \in ExitCodes : closeEvent(i, code)

Spec == Init /\ [][Next]_vars

(***************************************************************************)
(* One caller, two invocations whose turns interleave.                     *)
(***************************************************************************)
\* an implicit request without executable, an explicit one, an implicit one
\* that unsets an ambient variable
ConcurrentRequests ==
    { ("version" :> "insiders") @@ ("extensionPath" :> "/ext") @@ ("testRunnerPath" :> "/ext/test")
        @@ ("testWorkspace" :> "/ws")
        @@ ("testRunnerEnv" :> (("MODE" :> Str("test")) @@ ("EXTRA" :> Str("1")))),
      ("vscodeExecutablePath" :> "/opt/code") @@ ("launchArgs" :> <<"/fixture", "--explicit">>),
      ("vscodeExecutablePath" :> "/opt/code") @@ ("extensionPath" :> "/ext")
        @@ ("testRunnerPath" :> "/ext/test") @@ ("locale" :> "fr")
        @@ ("additionalLaunchArgs" :> <<"--x", "--y">>)
        @@ ("testRunnerEnv" :> (("MODE" :> undefined) @@ ("EXTRA" :> Str("1")))) }

InitConcurrent ==
    /\ options \in [Invocations -> ConcurrentRequests]
    /\ request = options
    /\ pc = [i \in Invocations |-> "start"]
    /\ processEnv = AmbientEnv
    /\ downloadCalls = [i \in Invocations |-> <<>>]
    /\ downloaded = [i \in Invocations |-> <<>>]
    /\ spawned = [i \in Invocations |-> <<>>]
    /\ result = [i \in Invocations |-> Pending]
    /\ trace = [i \in Invocations |-> <<>>]
    /\ log = [i \in Invocations |-> <<>>]

SpecConcurrent == InitConcurrent /\ [][Next]_vars

\* the child's 'close' event is eventually delivered
CloseFairness == \A i \in Invocations : WF_vars(\E code \in ExitCodes : closeEvent(i, code))

SpecConcurrentFair == SpecConcurrent /\ CloseFairness

(***************************************************************************)
(* What the properties below read off a state.                             *)
(***************************************************************************)
Spawned(i) == spawned[i] # <<>>
Closed(i) == pc[i] = "closed"
Settled(i) == result[i].state # "pending"

\* the child's event of the given kind has been handled
Handled(i, kind) == \E k \in DOMAIN trace[i] : trace[i][k][1] = kind

\* the exit code the 'close' event carried
ExitCode(i) == trace[i][Len(trace[i])][2]

\* the step is invocation i's 'close' handler
CloseStep(i) == pc[i] = "running" /\ pc'[i] = "closed"

\* the step is the failure of invocation i's awaited download
DownloadFailsStep(i) == pc[i] = "await" /\ pc'[i] = "failed"

(***************************************************************************)
(* C1.  As claimed: the result of runTests changes only in the step that   *)
(* handles the child's 'close' event, and only from pending.  This fails:  *)
(* a failed download rejects the result and no child exists.               *)
(***************************************************************************)
C1_SettledOnlyByClose ==
    [][\A i \in Invocations :
          result'[i] # result[i] => result[i].state = "pending" /\ CloseStep(i)]_vars

\* C1, amended: the result of runTests changes at most once, from pending to
\* settled, and only in the step that handles the child's 'close' event or in
\* the step in which the awaited download fails; no stdout-data, stderr-data
\* or 'error' event changes it, and once settled it never changes.
C1_SettledOnce ==
    [][\A i \in Invocations :
          result'[i] # result[i] =>
              /\ result[i].state = "pending"
              /\ result'[i].state # "pending"
              /\ CloseStep(i) \/ DownloadFailsStep(i)]_vars

\* a run in which stdout data, stderr data or an error were handled before
\* the 'close' event settled the result
C1_Witness ==
    \E i \in Invocations :
        /\ Closed(i) /\ Settled(i)
        /\ Handled(i, "stderr")
        /\ Handled(i, "stdout") \/ Handled(i, "error")

(***************************************************************************)
(* C2.  After a 'close' event with exit code 0 the result is fulfilled     *)
(* with 0, and a fulfilled result always has the value 0.                  *)
(***************************************************************************)
C2_ZeroResolves ==
    \A i \in Invocations :
        /\ Closed(i) /\ ExitCode(i) = Num(0) => result[i] = [state |-> "fulfilled", value |-> Num(0)]
        /\ result[i].state = "fulfilled" => result[i].value = Num(0)

C2_Witness ==
    \E i \in Invocations : Closed(i) /\ ExitCode(i) = Num(0) /\ result[i].state = "fulfilled"

(***************************************************************************)
(* C3.  After a 'close' event with any exit code other than 0, null        *)
(* included, the result is rejected: the resolve(code) that follows the    *)
(* reject does not fulfil it.                                              *)
(***************************************************************************)
C3_NonZeroRejects ==
    \A i \in Invocations :
        Closed(i) /\ ExitCode(i) # Num(0) => result[i] = [state |-> "rejected", value |-> Str("Failed")]

C3_Witness ==
    \E i \in Invocations : Closed(i) /\ ExitCode(i) = null /\ result[i].state = "rejected"

(***************************************************************************)
(* C4.  An 'error' event does not settle the result: while the child has   *)
(* not closed the result is pending, whatever 'error' events were handled; *)
(* and when 'close' follows an 'error' the exit code alone decides.        *)
(***************************************************************************)
C4_ErrorDoesNotSettle ==
    \A i \in Invocations :
        Handled(i, "error") =>
            /\ ~Closed(i) => result[i] = Pending
            /\ Closed(i) /\ ExitCode(i) = Num(0) => result[i] = [state |-> "fulfilled", value |-> Num(0)]
            /\ Closed(i) /\ ExitCode(i) # Num(0) => result[i].state = "rejected"

\* an 'error' event followed by a 'close' event with code 0
C4_Witness ==
    \E i \in Invocations :
        Handled(i, "error") /\ Closed(i) /\ ExitCode(i) = Num(0) /\ result[i].state = "fulfilled"

(***************************************************************************)
(* C5.  A request without an executable path (none, or the empty string,   *)
(* which line 128 treats alike) makes exactly one call of the download,    *)
(* with options.version (undefined when the request has none); the child   *)
(* is spawned only after the download returned, with the returned path.    *)
(* A request with an executable path makes no call and spawns that path.   *)
(***************************************************************************)
NoExecutable(i) == ~TruthyString(request[i], "vscodeExecutablePath")

C5_Acquisition ==
    \A i \in Invocations :
        /\ NoExecutable(i) =>
              /\ downloadCalls[i] =
                    IF pc[i] \in {"idle", "start"} THEN <<>> ELSE <<Read(request[i], "version")>>
              /\ Spawned(i) =>
                    /\ downloaded[i] # <<>>
                    /\ Str(spawned[i][1].executable) = downloaded[i][1]
        /\ ~NoExecutable(i) =>
              /\ downloadCalls[i] = <<>>
              /\ Spawned(i) => spawned[i][1].executable = request[i]["vscodeExecutablePath"]

\* a child spawned from a downloaded executable, for a request with a version
C5_Witness ==
    \E i \in Invocations :
        /\ NoExecutable(i) /\ Has(request[i], "version")
        /\ Spawned(i) /\ Len(downloadCalls[i]) = 1

(***************************************************************************)
(* C6.  When the download fails the result is rejected with the download's *)
(* error, the download is not called again and no child is spawned; and no *)
(* invocation spawns more than one child, whatever the child's events.     *)
(***************************************************************************)
C6_AcquisitionFailure ==
    \A i \in Invocations :
        /\ Len(spawned[i]) <= 1
        /\ Len(downloadCalls[i]) <= 1
        /\ (downloaded[i] # <<>> /\ downloaded[i][1][1] = "error") =>
              /\ result[i] = [state |-> "rejected", value |-> downloaded[i][1]]
              /\ spawned[i] = <<>>

\* a download that failed
C6_Witness ==
    \E i \in Invocations :
        /\ downloaded[i] = <<Err("Failed to unzip")>>
        /\ result[i].state = "rejected"

(***************************************************************************)
(* C7.  For a request without the launchArgs key the list given to spawn   *)
(* is: the workspace if given (a non-empty string), then the three options *)
(* with locale 'en' when none is given, then the additional arguments.     *)
(***************************************************************************)
Given(o, k) == Has(o, k) /\ o[k] # ""

ImplicitArgs(o) ==
    (IF Given(o, "testWorkspace") THEN <<o["testWorkspace"]>> ELSE <<>>)
    \o << "--extensionDevelopmentPath=" \o o["extensionPath"],
          "--extensionTestsPath=" \o o["testRunnerPath"],
          "--locale=" \o (IF Given(o, "locale") THEN o["locale"] ELSE "en") >>
    \o (IF Has(o, "additionalLaunchArgs") THEN o["additionalLaunchArgs"] ELSE <<>>)

C7_ImplicitArgs ==
    \A i \in Invocations :
        Spawned(i) /\ ~Has(request[i], "launchArgs") =>
            spawned[i][1].args = ImplicitArgs(request[i])

\* a spawn for an implicit request with a workspace and additional arguments
C7_Witness ==
    \E i \in Invocations :
        /\ Spawned(i) /\ ~Has(request[i], "launchArgs")
        /\ Given(request[i], "testWorkspace")
        /\ Has(request[i], "additionalLaunchArgs")
        /\ Len(spawned[i][1].args) = 6

(***************************************************************************)
(* C8.  For a request with the launchArgs key the list given to spawn is   *)
(* that list, whatever implicit fields the request also carries.           *)
(***************************************************************************)
C8_ExplicitArgs ==
    \A i \in Invocations :
        Spawned(i) /\ Has(request[i], "launchArgs") =>
            spawned[i][1].args = request[i]["launchArgs"]

\* a spawn for a request that has launchArgs and implicit fields as well
C8_Witness ==
    \E i \in Invocations :
        /\ Spawned(i) /\ Has(request[i], "launchArgs")
        /\ Given(request[i], "testWorkspace") /\ Given(request[i], "locale")
        /\ Has(request[i], "additionalLaunchArgs")

(***************************************************************************)
(* C9.  The environment given to spawn has the keys of the caller's        *)
(* testRunnerEnv, each with the caller's value, and the other keys of      *)
(* process.env, each with its ambient value, and no further key.           *)
(***************************************************************************)
CallerEnv(i) == IF Has(request[i], "testRunnerEnv") THEN request[i]["testRunnerEnv"] ELSE NoKeys

C9_EnvMerge ==
    \A i \in Invocations :
        Spawned(i) =>
            LET env == spawned[i][1].env
            IN  /\ DOMAIN env = DOMAIN CallerEnv(i) \cup DOMAIN processEnv
                /\ \A k \in DOMAIN CallerEnv(i) : env[k] = CallerEnv(i)[k]
                /\ \A k \in DOMAIN processEnv \ DOMAIN CallerEnv(i) : env[k] = processEnv[k]

\* a spawn whose caller overrides an ambient key and adds a key of its own
C9_Witness ==
    \E i \in Invocations :
        /\ Spawned(i)
        /\ \E k \in DOMAIN CallerEnv(i) \cap DOMAIN processEnv :
              CallerEnv(i)[k] # undefined /\ CallerEnv(i)[k] # processEnv[k]
        /\ DOMAIN CallerEnv(i) \ DOMAIN processEnv # {}
        /\ DOMAIN processEnv \ DOMAIN CallerEnv(i) # {}

(***************************************************************************)
(* C10.  As claimed: for a key the caller gives with the value undefined   *)
(* the environment given to spawn keeps the ambient value.  This fails:    *)
(* Object.assign copies the undefined value over the ambient one.          *)
(***************************************************************************)
C10_UndefinedKeepsAmbient ==
    \A i \in Invocations :
        Spawned(i) =>
            \A k \in DOMAIN CallerEnv(i) \cap DOMAIN processEnv :
                CallerEnv(i)[k] = undefined => spawned[i][1].env[k] = processEnv[k]

\* C10, amended: a testRunnerEnv entry whose value is undefined is an override
\* like any other: in the environment given to spawn its key holds undefined,
\* so the ambient value of that key is not kept.
C10_UndefinedOverrides ==
    \A i \in Invocations :
        Spawned(i) =>
            \A k \in DOMAIN CallerEnv(i) :
                CallerEnv(i)[k] = undefined =>
                    /\ k \in DOMAIN spawned[i][1].env
                    /\ spawned[i][1].env[k] = undefined
                    /\ k \in DOMAIN processEnv => spawned[i][1].env[k] # processEnv[k]

\* a spawn whose caller gives an ambient key with the value undefined
C10_Witness ==
    \E i \in Invocations :
        /\ Spawned(i)
        /\ \E k \in DOMAIN CallerEnv(i) \cap DOMAIN processEnv : CallerEnv(i)[k] = undefined

(***************************************************************************)
(* C11.  As claimed: the stdout chunk equal to the idle line is not        *)
(* logged and every other stdout chunk is logged as it is.  This fails: a  *)
(* chunk that contains the idle marker among other text is not logged.     *)
(***************************************************************************)
StdoutStep(i, data) == trace'[i] = Append(trace[i], <<"stdout", data>>)

\* the lines of log[i] equal to the given line
Logged(i, line) == {k \in DOMAIN log[i] : log[i][k] = line}

C11_OnlyExactIdleSuppressed ==
    [][\A i \in Invocations : \A data \in StdoutChunks :
          StdoutStep(i, data) =>
              log'[i] = IF data = "update#setState idle\n" THEN log[i] ELSE Append(log[i], data)]_vars

\* C11, amended: a standard-output chunk is suppressed from the log exactly
\* when it contains "update#setState idle" (the chunk equal to
\* "update#setState idle\n" is one such); every other chunk is logged verbatim.
C11_IdleMarkerSuppressed ==
    [][\A i \in Invocations : \A data \in StdoutChunks :
          StdoutStep(i, data) =>
              log'[i] = IF Includes(data, "update#setState idle")
                        THEN log[i]
                        ELSE Append(log[i], data)]_vars

\* a chunk with the marker inside other text was handled and not logged, and
\* a chunk without the marker was handled and logged
C11_Witness ==
    \E i \in Invocations :
        /\ \E k \in DOMAIN trace[i] : trace[i][k] = <<"stdout", "main update#setState idle again\n">>
        /\ \E k \in DOMAIN trace[i] : trace[i][k] = <<"stdout", "1 passing\n">>
        /\ log[i] = <<"1 passing\n">>

(***************************************************************************)
(* C12.  A stderr chunk is not logged exactly when it contains             *)
(* "stty: stdin"; every other stderr chunk is logged once, after the       *)
(* prefix 'Spawn Error: '.                                                 *)
(***************************************************************************)
StderrStep(i, data) == trace'[i] = Append(trace[i], <<"stderr", data>>)

C12_SttySuppressed ==
    [][\A i \in Invocations : \A data \in StderrChunks :
          StderrStep(i, data) =>
              log'[i] = IF Includes(data, "stty: stdin")
                        THEN log[i]
                        ELSE Append(log[i], "Spawn Error: " \o data)]_vars

\* both kinds of stderr chunk were handled and one line was logged
C12_Witness ==
    \E i \in Invocations :
        /\ \E k \in DOMAIN trace[i] : trace[i][k] = <<"stderr", "stty: stdin isn't a terminal\n">>
        /\ \E k \in DOMAIN trace[i] : trace[i][k] = <<"stderr", "warning\n">>
        /\ log[i] = <<"Spawn Error: warning\n">>

(***************************************************************************)
(* C13.  The rejection carries no exit-code detail: two runs that end      *)
(* with exit codes other than 0, whichever they are, are rejected with     *)
(* the same value.                                                         *)
(***************************************************************************)
C13_NoExitCodeDetail ==
    \A i, j \in Invocations :
        (Closed(i) /\ Closed(j) /\ ExitCode(i) # Num(0) /\ ExitCode(j) # Num(0)) =>
            /\ result[i].state = "rejected"
            /\ result[i] = result[j]

\* two runs that ended with different exit codes, neither of them 0
C13_Witness ==
    \E i, j \in Invocations :
        /\ Closed(i) /\ Closed(j)
        /\ ExitCode(i) = Num(1) /\ ExitCode(j) = null
        /\ result[i].state = "rejected" /\ result[j].state = "rejected"

(***************************************************************************)
(* C14.  As claimed: every 'close' event logs the exit-code line, and the  *)
(* line 'Done' is logged when the exit code is 0 and never in a run whose  *)
(* result is rejected.  The handler does not return after reject, so a     *)
(* run that ends with another exit code logs 'Done' as well.               *)
(***************************************************************************)
C14_DoneOnSuccessOnly ==
    \A i \in Invocations :
        /\ Closed(i) =>
              /\ Logged(i, "Exit code:   " \o toString(ExitCode(i))) # {}
              /\ ExitCode(i) = Num(0) => Logged(i, "Done\n") # {}
        /\ result[i].state = "rejected" => Logged(i, "Done\n") = {}

(***************************************************************************)
(* C15.  As claimed: the options object the caller passed has, in every    *)
(* state of the run, the fields and values it had at the call.  This       *)
(* fails: line 129 stores the downloaded path in it.                       *)
(***************************************************************************)
C15_RequestUnchanged ==
    \A i \in Invocations : options[i] = request[i]

\* C15, amended: the core writes one field of the caller's options object and
\* no other: when the request has no executable path and the acquisition
\* succeeds, vscodeExecutablePath is set to the returned path; every other
\* field keeps its value, and when an executable path is present or the
\* acquisition fails the whole object is as it was before the call.
C15_OnlyExecutablePathWritten ==
    \A i \in Invocations :
        /\ DOMAIN options[i] = DOMAIN request[i] \cup
              (IF Spawned(i) THEN {"vscodeExecutablePath"} ELSE {})
        /\ \A k \in DOMAIN request[i] \ {"vscodeExecutablePath"} : options[i][k] = request[i][k]
        /\ (Spawned(i) /\ NoExecutable(i)) => Str(options[i]["vscodeExecutablePath"]) = downloaded[i][1]
        /\ (~Spawned(i) \/ ~NoExecutable(i)) => options[i] = request[i]

\* a run whose download returned, with a request that had other fields
C15_Witness ==
    \E i \in Invocations :
        /\ Spawned(i) /\ NoExecutable(i)
        /\ options[i] # request[i]
        /\ Has(request[i], "version") /\ Has(request[i], "testRunnerEnv")

(***************************************************************************)
(* C16.  As claimed, for two invocations whose turns interleave:           *)
(* process.env is never written, the environment and the argument list of  *)
(* each spawn are those of its own request, and the result of an           *)
(* invocation changes only in the 'close' step of its own child.  The      *)
(* last part fails: the failure of its own download rejects it.            *)
(***************************************************************************)
OwnEnv(i) ==
    [k \in DOMAIN AmbientEnv \cup DOMAIN CallerEnv(i) |->
        IF k \in DOMAIN CallerEnv(i) THEN CallerEnv(i)[k] ELSE AmbientEnv[k]]

OwnArgs(i) ==
    IF Has(request[i], "launchArgs") THEN request[i]["launchArgs"] ELSE ImplicitArgs(request[i])

OwnLaunch ==
    /\ processEnv = AmbientEnv
    /\ \A i \in Invocations :
          Spawned(i) => spawned[i][1].env = OwnEnv(i) /\ spawned[i][1].args = OwnArgs(i)

C16_SettledByOwnCloseOnly ==
    /\ []OwnLaunch
    /\ [][\A i \in Invocations : result'[i] # result[i] => CloseStep(i)]_vars

\* C16, amended: when two invocations interleave arbitrarily, the ambient
\* environment is never mutated, each invocation's child environment and
\* argument list are those computed from its own request alone, and each
\* invocation's result is settled only by its own child's termination event
\* or by the failure of its own acquisition, never by a step of the other
\* invocation.
C16_Isolated ==
    /\ []OwnLaunch
    /\ [][\A i \in Invocations :
             result'[i] # result[i] => CloseStep(i) \/ DownloadFailsStep(i)]_vars

\* two different requests, both spawned with different environments; one
\* child has closed while the other, which has delivered data, has not
C16_Witness ==
    \E i, j \in Invocations :
        /\ request[i] # request[j]
        /\ Spawned(i) /\ Spawned(j)
        /\ spawned[i][1].env # spawned[j][1].env
        /\ Closed(i) /\ Settled(i)
        /\ ~Closed(j) /\ ~Settled(j) /\ DataEvents(j) > 0

(***************************************************************************)
(* C17.  Given that the 'close' event of a spawned child is eventually     *)
(* delivered, the result is eventually settled; it becomes settled in the  *)
(* step that handles 'close', whatever events came before; and while a     *)
(* spawned child has not closed the result is pending.                     *)
(***************************************************************************)
C17_CloseSettles ==
    /\ \A i \in Invocations : Spawned(i) ~> Settled(i)
    /\ [][\A i \in Invocations : CloseStep(i) => ~Settled(i) /\ Settled(i)']_vars
    /\ [](\A i \in Invocations : (Spawned(i) /\ ~Closed(i)) => ~Settled(i))

\* a result settled by 'close' after stdout, stderr or 'error' events
C17_Witness ==
    \E i \in Invocations :
        /\ Closed(i) /\ Settled(i)
        /\ DataEvents(i) = MaxEvents
        /\ Handled(i, "error")

(***************************************************************************)
(* C18.  Presence of an optional string field is its truthiness: with the  *)
(* executable path '' the download is called as with none and its path is  *)
(* spawned; with the workspace '' the list starts with the extension       *)
(* option; with the locale '' the locale option is '--locale=en'.          *)
(***************************************************************************)
IsEmpty(o, k) == Has(o, k) /\ o[k] = ""

C18_EmptyStringIsAbsent ==
    \A i \in Invocations :
        /\ IsEmpty(request[i], "vscodeExecutablePath") =>
              /\ pc[i] \notin {"idle", "start"} => downloadCalls[i] = <<Read(request[i], "version")>>
              /\ Spawned(i) => Str(spawned[i][1].executable) = downloaded[i][1]
        /\ (Spawned(i) /\ ~Has(request[i], "launchArgs")) =>
              LET args == spawned[i][1].args
                  first == IF Has(request[i], "testWorkspace") /\ request[i]["testWorkspace"] # ""
                           THEN 2 ELSE 1
              IN  /\ IsEmpty(request[i], "testWorkspace") =>
                        args[1] = "--extensionDevelopmentPath=" \o request[i]["extensionPath"]
                  /\ IsEmpty(request[i], "locale") => args[first + 2] = "--locale=en"

\* a spawn for an implicit request whose three optional strings are all ''
C18_Witness ==
    \E i \in Invocations :
        /\ Spawned(i) /\ ~Has(request[i], "launchArgs")
        /\ IsEmpty(request[i], "vscodeExecutablePath")
        /\ IsEmpty(request[i], "testWorkspace")
        /\ IsEmpty(request[i], "locale")

====
